---- MODULE Spec2Model ----
(***************************************************************************)
(* Cache-aside data access of the bookstore API (src/backend/server.js).   *)
(*                                                                         *)
(* The store (MySQL table books) and the cache (Redis) are the shared      *)
(* state.  Every request handler is an async function: each await on a     *)
(* store query or a cache command is one atomic step, taken at the moment  *)
(* the service executes the command; the synchronous code that follows the *)
(* await up to the next command (or up to the response) belongs to the     *)
(* same step.  Handlers of different requests interleave between steps.    *)
(***************************************************************************)
EXTENDS Integers, Sequences, FiniteSets, TLC

\* ------------------------------------------------------------------ bounds
MaxId   == 2    \* ids the AUTO_INCREMENT column hands out in one run
MaxReqs == 3    \* requests accepted in one run
NSlots  == 2    \* requests in flight at the same time
MaxTicks == 3   \* steps of the cache service's clock in one run
NumCap  == 200000   \* whole numbers read from a string saturate here

\* --------------------------------------------------------------- constants
CACHE_TTL == 300
\* let retries = 5 in startServer
StartRetries == 5
\* setTimeout(resolve, 5000) between two attempts, in milliseconds
RetryDelayMs == 5000

\* --------------------------------------------------------------- JS values
\* A JS / JSON value is a tagged record.  Strings are sequences of
\* characters; numbers are kept in hundredths (two decimals, as DECIMAL(10,2)).
Undefined == [t |-> "undefined"]
Null      == [t |-> "null"]
Str(s)    == [t |-> "string", chars |-> s]
Dec(c)    == [t |-> "number", v |-> c]
Num(n)    == Dec(n * 100)
NaN       == [t |-> "number", nan |-> TRUE]
\* what mysql2 hands back for a DECIMAL column: a string with the decimal text
DecimalText(c) == [t |-> "decimal", v |-> c]
\* a Date object (TIMESTAMP column) and its JSON form, an ISO-8601 string
Date(n)      == [t |-> "date", v |-> n]
IsoString(n) == [t |-> "isostring", v |-> n]

Bool(b)      == [t |-> "boolean", b |-> b]
Obj          == [t |-> "object"]

IsStr(x) == x.t = "string"
IsNum(x) == x.t = "number" /\ "v" \in DOMAIN x

\* JS truthiness of the values above (used by !title, isbn &&, price || 0)
Truthy(x) ==
    CASE x.t = "undefined" -> FALSE
      [] x.t = "null"      -> FALSE
      [] x.t = "string"    -> Len(x.chars) > 0
      [] x.t = "number"    -> IF "nan" \in DOMAIN x THEN FALSE ELSE x.v # 0
      [] x.t = "boolean"   -> x.b
      [] OTHER             -> TRUE

\* --------------------------------------------------------------- validators
Digits == {"0", "1", "2", "3", "4", "5", "6", "7", "8", "9"}
\* characters removed by isbn.replace(/[-\s]/g, '')
Stripped == {"-", " ", "\t", "\n", "\r"}

RECURSIVE CleanChars(_)
CleanChars(s) ==
    IF s = <<>> THEN <<>>
    ELSE IF Head(s) \in Stripped THEN CleanChars(Tail(s))
         ELSE <<Head(s)>> \o CleanChars(Tail(s))

AllDigits(s, from, to) == \A i \in from..to : s[i] \in Digits

\* /^(?:\d{9}X|\d{10})$/
isbn10Regex(s) ==
    /\ Len(s) = 10
    /\ AllDigits(s, 1, 9)
    /\ s[10] \in Digits \cup {"X"}

\* mutant: thirteen digits with any prefix
isbn13Regex_AnyPrefix(s) ==
    /\ Len(s) = 13
    /\ AllDigits(s, 1, 13)

\* /^(?:97[89]\d{10})$/
isbn13Regex(s) ==
    /\ Len(s) = 13
    /\ s[1] = "9" /\ s[2] = "7" /\ s[3] \in {"8", "9"}
    /\ AllDigits(s, 4, 13)

\* validateISBN(isbn): only a string has .replace; any other value throws a
\* TypeError, which the callers' try/catch turns into a 500.
validateISBNThrows(isbn) == ~IsStr(isbn)
validateISBN(isbn) ==
    LET cleanISBN == CleanChars(isbn.chars)
    IN  isbn10Regex(cleanISBN) \/ isbn13Regex(cleanISBN)

\* Reading a number from the front of a string, as parseFloat and parseInt
\* do: leading white space is skipped, then an optional sign, digits and (for
\* parseFloat) a fraction; what follows is ignored; with no digit the result
\* is NaN.  Values are in hundredths: a fraction is read to two places.
WhiteSpace == {" ", "\t", "\n", "\r"}
DigitChars == <<"0", "1", "2", "3", "4", "5", "6", "7", "8", "9">>
DigitValue(ch) == (CHOOSE i \in 1..10 : DigitChars[i] = ch) - 1
Saturate(v) == IF v > NumCap THEN NumCap ELSE v

RECURSIVE TrimStart(_)
TrimStart(s) ==
    IF s # <<>> /\ Head(s) \in WhiteSpace THEN TrimStart(Tail(s)) ELSE s

LeadingDigits(s) ==
    CHOOSE k \in 0..Len(s) :
        /\ \A i \in 1..k : s[i] \in Digits
        /\ k = Len(s) \/ s[k + 1] \notin Digits

RECURSIVE IntOf(_, _)
IntOf(s, k) ==
    IF k = 0 THEN 0 ELSE Saturate(IntOf(s, k - 1) * 10 + DigitValue(s[k]))

StrToNumber(s, fraction) ==
    LET t    == TrimStart(s)
        neg  == t # <<>> /\ Head(t) = "-"
        u    == IF t # <<>> /\ Head(t) \in {"-", "+"} THEN Tail(t) ELSE t
        k    == LeadingDigits(u)
        rest == SubSeq(u, k + 1, Len(u))
        f    == IF fraction /\ rest # <<>> /\ Head(rest) = "." THEN Tail(rest) ELSE <<>>
        fk   == LeadingDigits(f)
        hundredths == (IF fk >= 1 THEN DigitValue(f[1]) * 10 ELSE 0)
                        + (IF fk >= 2 THEN DigitValue(f[2]) ELSE 0)
        mag  == IntOf(u, k) * 100 + hundredths
    IN  IF k = 0 /\ fk = 0 THEN NaN
        ELSE Dec(IF neg THEN -mag ELSE mag)

\* parseFloat / parseInt: a number parses to itself (parseInt truncates toward
\* zero), a string is read from its front, any other value is NaN.
parseFloat(x) ==
    IF IsNum(x) THEN x
    ELSE IF IsStr(x) THEN StrToNumber(x.chars, TRUE)
    ELSE NaN
parseInt(x) ==
    IF IsNum(x)
    THEN Dec(IF x.v >= 0 THEN (x.v \div 100) * 100 ELSE -(((-x.v) \div 100) * 100))
    ELSE IF IsStr(x) THEN StrToNumber(x.chars, FALSE)
    ELSE NaN

validatePrice(price) ==
    LET numPrice == parseFloat(price)
    IN  IsNum(numPrice) /\ numPrice.v >= 0 /\ numPrice.v <= 10000 * 100

validateStock(stock) ==
    LET numStock == parseInt(stock)
    IN  IsNum(numStock) /\ numStock.v >= 0 /\ numStock.v <= 100000 * 100

\* ------------------------------------------------------------------ inputs
ISBN10  == <<"0", "4", "5", "1", "5", "2", "4", "9", "3", "5">>
ISBN10X == <<"0", "4", "3", "9", "4", "2", "0", "8", "9", "X">>
ISBN13  == <<"9", "7", "8", "0", "4", "5", "1", "5", "2", "4", "9", "3", "5">>
ISBNBad == <<"1", "2", "3", "4">>

Body(title, isbn, price, stock) ==
    [title |-> title, author |-> Str(<<"w">>), isbn |-> isbn,
     price |-> price, stock |-> stock]

BodyA   == Body(Str(<<"A">>), Str(ISBN10), Dec(1299), Num(5))
BodyB   == Body(Str(<<"B">>), Str(ISBN13), Undefined, Undefined)
BodyBad == Body(Str(<<"C">>), Str(ISBNBad), Num(1), Num(1))
Bodies  == {BodyA, BodyB, BodyBad}
NoBody  == [none |-> TRUE]

\* values handed to the validation functions on their own
Chars(n) == [i \in 1..n |-> "7"]
InputStrings ==
    { ISBN10, ISBN10X, ISBN13, ISBNBad, <<>>,
      <<"9", "7", "8", "-", "0", "-", "4", "5", "1", "-", "5", "2", "4", "9",
        "3", "-", "5">>,
      <<"0", "4", "5", "1", " ", "5", "2", "4", "9", "3", "5">>,
      <<"9", "7", "7", "0", "4", "5", "1", "5", "2", "4", "9", "3", "5">>,
      <<"0", "4", "3", "9", "4", "2", "0", "8", "9", "x">>,
      Chars(9), Chars(11), Chars(12),
      <<"1", "0", "0", "0", "0">>,
      <<"1", "0", "0", "0", "0", ".", "0", "1">>,
      <<"1", "0", "0", "0", "0", "0">>,
      <<"1", "0", "0", "0", "0", "1">>,
      <<"-", "1">>, <<"5", ".", "7">>, <<"1", "2", "a", "b", "c">>,
      <<"a", "b", "c">>, <<" ", "4", "2">> }
InputNumbers ==
    { Dec(-100), Dec(-50), Num(0), Dec(1299), Num(10000), Dec(1000001),
      Num(100000), Dec(10000050), Num(100001), NaN }
Values ==
    {Str(s) : s \in InputStrings} \cup InputNumbers
        \cup {Undefined, Null, Bool(TRUE), Bool(FALSE), Obj}

\* path parameter :id as the client writes it
DigitStr == <<"1", "2", "3", "4", "5", "6", "7", "8", "9">>
NumericIds == {DigitStr[i] : i \in 1..MaxId}
PathIds    == NumericIds \cup {"all"}
\* MySQL compares the INT column id with the string: a numeric string is its
\* number, a string with no numeric prefix is 0.
SqlIntOfString(p) ==
    IF \E i \in 1..Len(DigitStr) : DigitStr[i] = p
    THEN CHOOSE i \in 1..Len(DigitStr) : DigitStr[i] = p
    ELSE 0
\* parseInt(id) in the PUT response
parseIntPath(p) == IF SqlIntOfString(p) = 0 THEN NaN ELSE Num(SqlIntOfString(p))

\* ------------------------------------------------------------------- JSON
\* JSON.stringify of one value: a Date becomes its ISO string, NaN becomes
\* null; strings, numbers and null are written as they are.
ToJSON(x) ==
    CASE x.t = "date" -> IsoString(x.v)
      [] x.t = "number" /\ "nan" \in DOMAIN x -> Null
      [] OTHER -> x
\* JSON.stringify of an object: members whose value is undefined are dropped.
JsonOfObject(o) ==
    [f \in {g \in DOMAIN o : o[g].t # "undefined"} |-> ToJSON(o[f])]
JsonOfRows(rows) == [i \in 1..Len(rows) |-> JsonOfObject(rows[i])]

\* A JSON document, in one shape: an object (book), an array (list), or none.
\* An object whose list is not empty is the spread of an array: its members
\* are the array's elements under the keys "0", "1", ...
NoBook   == [none |-> TRUE]
JNone    == [j |-> "none",   book |-> NoBook, list |-> <<>>]
JBook(b) == [j |-> "object", book |-> b,      list |-> <<>>]
JList(l) == [j |-> "array",  book |-> NoBook, list |-> l]
\* { ...cached }
Spread(doc) == [j |-> "object", book |-> doc.book, list |-> doc.list]

\* ------------------------------------------------------------------ store
\* Table books (docs/API.md schema): id INT AUTO_INCREMENT PRIMARY KEY,
\* title/author/isbn NOT NULL, isbn UNIQUE, price DECIMAL(10,2), stock INT,
\* created_at, updated_at TIMESTAMP.
RowIds == 1..MaxId
NoRow  == [none |-> TRUE]

SqlDecimal(x) == IF IsNum(x) THEN DecimalText(x.v) ELSE Null
\* INT column: a fractional number is rounded to the nearest integer
SqlInt(x) == IF IsNum(x) THEN Num((x.v + 50) \div 100) ELSE Null
OrZero(x) == IF Truthy(x) THEN x ELSE Num(0)

SeedRow ==
    [id |-> Num(1), title |-> Str(<<"S">>), author |-> Str(<<"w">>),
     isbn |-> Str(ISBN10X), price |-> DecimalText(999), stock |-> Num(1),
     created_at |-> Date(0), updated_at |-> Date(0)]

Present(st) == {i \in RowIds : st[i] # NoRow}

\* SELECT * FROM books ORDER BY created_at DESC
RECURSIVE NewestFirst(_, _)
NewestFirst(st, ids) ==
    IF ids = {} THEN <<>>
    ELSE LET m == CHOOSE i \in ids :
                      \A k \in ids : st[k].created_at.v <= st[i].created_at.v
         IN  <<st[m]>> \o NewestFirst(st, ids \ {m})
SelectAll(st) == NewestFirst(st, Present(st))

\* SELECT * FROM books WHERE id = ?
\* mutant: the WHERE clause is ignored, the first row is returned
SelectById_AnyRow(st, p) ==
    IF Present(st) = {} THEN <<>>
    ELSE <<st[CHOOSE i \in Present(st) : TRUE]>>
Matches(st, p) == {i \in Present(st) : i = SqlIntOfString(p)}
SelectById(st, p) ==
    IF Matches(st, p) = {} THEN <<>>
    ELSE <<st[CHOOSE i \in Matches(st, p) : TRUE]>>

\* INSERT INTO books (title, author, isbn, price, stock) VALUES (?,?,?,?,?)
\* with [title, author, isbn, price || 0, stock || 0]
\* mutant: the isbn column without its UNIQUE constraint
DupIsbn_Never(st, isbn, except) == FALSE
DupIsbn(st, isbn, except) ==
    \E i \in Present(st) \ except : st[i].isbn = isbn
\* mutant: the id column without AUTO_INCREMENT, every insert gets id 1
InsertRow_SameId(id, b, t) ==
    [id |-> Num(1), title |-> b.title, author |-> b.author, isbn |-> b.isbn,
     price |-> SqlDecimal(OrZero(b.price)), stock |-> SqlInt(OrZero(b.stock)),
     created_at |-> Date(t), updated_at |-> Date(t)]
InsertRow(id, b, t) ==
    [id |-> Num(id), title |-> b.title, author |-> b.author, isbn |-> b.isbn,
     price |-> SqlDecimal(OrZero(b.price)), stock |-> SqlInt(OrZero(b.stock)),
     created_at |-> Date(t), updated_at |-> Date(t)]

\* UPDATE books SET title = ?, author = ?, isbn = ?, price = ?, stock = ?,
\* updated_at = NOW() WHERE id = ?   (undefined is sent as NULL)
NullParam(x) == x.t \in {"undefined", "null"}
UpdateRow(old, b, t) ==
    [old EXCEPT !.title = b.title, !.author = b.author, !.isbn = b.isbn,
                !.price = SqlDecimal(b.price), !.stock = SqlInt(b.stock),
                !.updated_at = Date(t)]

\* ------------------------------------------------------------------ cache
CacheKey(p) == "books:" \o p
AllKey      == "books:all"
Keys        == {CacheKey(p) : p \in PathIds}
NoEntry     == [none |-> TRUE]
\* KEYS pattern, for the pattern books:* every key of the model matches
KeysMatching(c) == {k \in Keys : c[k] # NoEntry}
\* DEL keys
DelKeys(c, ks) == [k \in Keys |-> IF k \in ks THEN NoEntry ELSE c[k]]

\* ------------------------------------------------------------------ state
VARIABLES
    store,        \* table books: id -> row or NoRow
    nextId,       \* AUTO_INCREMENT counter
    now,          \* the store's clock, one tick per mutation
    cache,        \* Redis: key -> entry or NoEntry
    isOpen,       \* redisClient?.isOpen
    poolOpen,     \* the pool has not been ended
    main,         \* position of the process: startServer, SIGTERM handler
    req,          \* the requests in flight, one per slot
    started,      \* requests accepted so far
    acked,        \* history: clock values of the mutations whose handler answered success
    cacheFaults,  \* history: some cache operation was skipped or failed
    retries,      \* startServer: let retries
    pool,         \* the module variable pool has been assigned
    connected,    \* startServer: what the last initDatabase() returned
    clockMs,      \* milliseconds the process has slept in timers
    attemptTimes, \* history: clockMs at each call of initDatabase()
    time,         \* the cache service's clock, in seconds
    input,        \* the value handed to a validation function
    verdict       \* which validation function was called and how it ended

vars == <<store, nextId, now, cache, isOpen, poolOpen, main, req, started,
          acked, cacheFaults, retries, pool, connected, clockMs, attemptTimes,
          time, input, verdict>>

\* SETEX key ttl text, at the cache service's time
Entry(doc, ttl) == [text |-> doc, ttl |-> ttl, at |-> time]

\* the variables of a call of a validation function on its own
valVars == <<input, verdict>>
NoVerdict == [fn |-> "none", out |-> "none"]

\* the variables of startServer's retry loop
startVars == <<retries, pool, connected, clockMs, attemptTimes>>

Slots == 1..NSlots

NoRes == [status |-> 0, doc |-> JNone, fromCache |-> FALSE, error |-> "", message |-> ""]
Res(status, doc, fromCache, error, message) ==
    [status |-> status, doc |-> doc, fromCache |-> fromCache,
     error |-> error, message |-> message]
ErrorRes(status, error) == Res(status, JNone, FALSE, error, "")

\* One request: what was asked (op, id, body), where its handler stands (pc),
\* the handler's locals (rows, insertId, keys), the response sent (res), and
\* what it did: cache commands sent (cmds), store queries sent (queries),
\* cache operations skipped or failed (faults), the store's verdict (outcome),
\* the clock value of its mutation (stamp), for Read-one the clock value
\* of an acknowledged row it found when it started (sawAcked, else -1), and
\* the cache service's time when it was accepted (at), and the number of
\* responses it has sent (sent).
Idle ==
    [op |-> "none", id |-> "", body |-> NoBody, pc |-> "idle",
     rows |-> <<>>, insertId |-> 0, keys |-> {}, res |-> NoRes,
     cmds |-> 0, queries |-> 0, faults |-> 0, hit |-> FALSE,
     outcome |-> "none", stamp |-> -1, sawAcked |-> -1, at |-> 0, sent |-> 0]

NewReq(op, id, body) ==
    [Idle EXCEPT !.op = op, !.id = id, !.body = body, !.at = time]

Free(s)    == req[s].pc \in {"idle", "done"}
\* the server is listening; the SIGTERM handler never closes it
Accepting  == main \in {"listening", "quit", "end"}
Running    == main # "exited"
CanStart(s) ==
    /\ Accepting
    /\ started < MaxReqs
    /\ Free(s)
    /\ \A q \in Slots : q < s => ~Free(q)

Init ==
    /\ store = [i \in RowIds |-> IF i = 1 THEN SeedRow ELSE NoRow]
    /\ nextId = 2
    /\ now = 0
    /\ cache = [k \in Keys |-> NoEntry]
    /\ isOpen = FALSE
    /\ poolOpen = TRUE
    /\ main = "initRedis"
    /\ req = [s \in Slots |-> Idle]
    /\ started = 0
    /\ acked = {}
    /\ cacheFaults = FALSE
    /\ retries = StartRetries
    /\ pool = TRUE
    /\ connected = TRUE
    /\ clockMs = 0
    /\ attemptTimes = <<0>>
    /\ time = 0
    /\ input = Undefined
    /\ verdict = NoVerdict

\* The state when startServer() is called: nothing assigned, no attempt made.
InitStart ==
    /\ store = [i \in RowIds |-> IF i = 1 THEN SeedRow ELSE NoRow]
    /\ nextId = 2
    /\ now = 0
    /\ cache = [k \in Keys |-> NoEntry]
    /\ isOpen = FALSE
    /\ poolOpen = TRUE
    /\ main = "initDatabase"
    /\ req = [s \in Slots |-> Idle]
    /\ started = 0
    /\ acked = {}
    /\ cacheFaults = FALSE
    /\ retries = StartRetries
    /\ pool = FALSE
    /\ connected = FALSE
    /\ clockMs = 0
    /\ attemptTimes = <<>>
    /\ time = 0
    /\ input = Undefined
    /\ verdict = NoVerdict

\* ------------------------------------------------------------- startServer
\* after the while loop: if (!pool) process.exit(1); else await initRedis()
AfterLoop(assigned) == IF assigned THEN "initRedis" ELSE "aborted"

\* mutant: the loop has no break, a successful attempt is followed by a retry
initDatabase_NoBreak ==
    /\ main = "initDatabase"
    /\ pool' = TRUE
    /\ attemptTimes' = Append(attemptTimes, clockMs)
    /\ \E ok \in BOOLEAN : connected' = ok
    /\ main' = "sleep"
    /\ UNCHANGED <<retries, clockMs, time, valVars>>
    /\ UNCHANGED <<store, nextId, now, cache, isOpen, poolOpen, req, started,
                   acked, cacheFaults>>

\* const connected = await initDatabase(); if (connected) break;
\* initDatabase: pool = mysql.createPool(dbConfig) creates the pool object
\* without connecting; await pool.getConnection() resolves (true) or rejects
\* (caught, false).
initDatabase ==
    /\ main = "initDatabase"
    /\ pool' = TRUE
    /\ attemptTimes' = Append(attemptTimes, clockMs)
    /\ \E ok \in BOOLEAN :
         /\ connected' = ok
         /\ main' = IF ok THEN AfterLoop(pool') ELSE "sleep"
    /\ UNCHANGED <<retries, clockMs, time, valVars>>
    /\ UNCHANGED <<store, nextId, now, cache, isOpen, poolOpen, req, started,
                   acked, cacheFaults>>

\* await new Promise(resolve => setTimeout(resolve, 5000)); retries--;
\* then the loop test retries > 0
RetrySleep ==
    /\ main = "sleep"
    /\ clockMs' = clockMs + RetryDelayMs
    /\ retries' = retries - 1
    /\ main' = IF retries' > 0 THEN "initDatabase" ELSE AfterLoop(pool)
    /\ UNCHANGED <<pool, connected, attemptTimes, time, valVars>>
    /\ UNCHANGED <<store, nextId, now, cache, isOpen, poolOpen, req, started,
                   acked, cacheFaults>>

\* ---------------------------------------------------- validation functions
\* A value is handed to one of the three validation functions.
InitValidate ==
    /\ store = [i \in RowIds |-> IF i = 1 THEN SeedRow ELSE NoRow]
    /\ nextId = 2
    /\ now = 0
    /\ cache = [k \in Keys |-> NoEntry]
    /\ isOpen = FALSE
    /\ poolOpen = TRUE
    /\ main = "listening"
    /\ req = [s \in Slots |-> Idle]
    /\ started = 0
    /\ acked = {}
    /\ cacheFaults = FALSE
    /\ retries = StartRetries
    /\ pool = TRUE
    /\ connected = TRUE
    /\ clockMs = 0
    /\ attemptTimes = <<0>>
    /\ time = 0
    /\ input \in Values
    /\ verdict = NoVerdict

\* how a call ends: it returns true or false, or it throws
Returned(b) == IF b THEN "true" ELSE "false"

Call_validateISBN ==
    /\ verdict = NoVerdict
    /\ verdict' = [fn |-> "validateISBN",
                   out |-> IF validateISBNThrows(input) THEN "throws"
                           ELSE Returned(validateISBN(input))]
    /\ UNCHANGED <<store, nextId, now, cache, isOpen, poolOpen, main, req,
                   started, acked, cacheFaults, startVars, time, input>>

Call_validatePrice ==
    /\ verdict = NoVerdict
    /\ verdict' = [fn |-> "validatePrice", out |-> Returned(validatePrice(input))]
    /\ UNCHANGED <<store, nextId, now, cache, isOpen, poolOpen, main, req,
                   started, acked, cacheFaults, startVars, time, input>>

Call_validateStock ==
    /\ verdict = NoVerdict
    /\ verdict' = [fn |-> "validateStock", out |-> Returned(validateStock(input))]
    /\ UNCHANGED <<store, nextId, now, cache, isOpen, poolOpen, main, req,
                   started, acked, cacheFaults, startVars, time, input>>

NextValidate ==
    \/ Call_validateISBN
    \/ Call_validatePrice
    \/ Call_validateStock

SpecValidate == InitValidate /\ [][NextValidate]_vars

\* ---------------------------------------------------------- process steps
\* mutant: a rejected connect() ends the process
initRedis_Fatal ==
    /\ main = "initRedis"
    /\ \E opened \in BOOLEAN :
         /\ isOpen' = opened
         /\ main' = IF opened THEN "listening" ELSE "aborted"
    /\ UNCHANGED <<store, nextId, now, cache, poolOpen, req, started, acked, cacheFaults>>
    /\ UNCHANGED <<startVars, time, valVars>>

\* initRedis: connect() resolves (isOpen) or rejects (caching disabled);
\* startServer then listens in both cases.
initRedis ==
    /\ main = "initRedis"
    /\ \E opened \in BOOLEAN : isOpen' = opened
    /\ main' = "listening"
    /\ UNCHANGED <<store, nextId, now, cache, poolOpen, req, started, acked, cacheFaults>>
    /\ UNCHANGED <<startVars, time, valVars>>

\* SIGTERM arrives: if (redisClient?.isOpen) await redisClient.quit()
\* (quit() closes the client at once); with no open client the handler goes
\* straight on to pool.end().
Sigterm ==
    /\ main = "listening"
    /\ IF isOpen
       THEN isOpen' = FALSE /\ main' = "quit" /\ UNCHANGED poolOpen
       ELSE poolOpen' = FALSE /\ main' = "end" /\ UNCHANGED isOpen
    /\ UNCHANGED <<store, nextId, now, cache, req, started, acked, cacheFaults>>
    /\ UNCHANGED <<startVars, time, valVars>>

\* quit() has resolved: if (pool) await pool.end()  (end() closes the pool to
\* new queries at once)
SigtermEnd ==
    /\ main = "quit"
    /\ poolOpen' = FALSE
    /\ main' = "end"
    /\ UNCHANGED <<store, nextId, now, cache, isOpen, req, started, acked, cacheFaults>>
    /\ UNCHANGED <<startVars, time, valVars>>

\* end() has resolved: process.exit(0)
SigtermExit ==
    /\ main = "end"
    /\ main' = "exited"
    /\ UNCHANGED <<store, nextId, now, cache, isOpen, poolOpen, req, started, acked, cacheFaults>>
    /\ UNCHANGED <<startVars, time, valVars>>

\* ---------------------------------------------------------- cache helpers
\* The result of one helper call: the value handed back (val), the cache
\* after it, the commands that reached the service (cmd) and whether the
\* call was skipped (client not open) or threw inside the helper (fault).
\* A command that throws has not changed the cache.

\* mutant: the ternary of getFromCache turned round, an entry found is dropped
getFromCache_DropsEntry(key, replied) ==
    IF ~isOpen THEN [val |-> JNone, cmd |-> 0, fault |-> 1]
    ELSE IF ~replied THEN [val |-> JNone, cmd |-> 1, fault |-> 1]
    ELSE [val |-> JNone, cmd |-> 1, fault |-> 0]

\* getFromCache(key); replied: the GET is answered (else it throws)
getFromCache(key, replied) ==
    IF ~isOpen THEN [val |-> JNone, cmd |-> 0, fault |-> 1]
    ELSE IF ~replied THEN [val |-> JNone, cmd |-> 1, fault |-> 1]
    ELSE [val |-> IF cache[key] = NoEntry THEN JNone ELSE cache[key].text,
          cmd |-> 1, fault |-> 0]

\* mutant: SET without an expiry instead of SETEX
setToCache_NoExpiry(key, data, replied) ==
    IF ~isOpen THEN [cache |-> cache, cmd |-> 0, fault |-> 1]
    ELSE IF ~replied THEN [cache |-> cache, cmd |-> 1, fault |-> 1]
    ELSE [cache |-> [cache EXCEPT ![key] = Entry(data, -1)],
          cmd |-> 1, fault |-> 0]

\* mutant: the isOpen guard of setToCache left out
setToCache_NoOpenCheck(key, data, replied) ==
    IF ~replied THEN [cache |-> cache, cmd |-> 1, fault |-> 1]
    ELSE [cache |-> [cache EXCEPT ![key] = Entry(data, CACHE_TTL)],
          cmd |-> 1, fault |-> 0]

\* mutant: the expiry handed to setEx is twice the configured TTL
setToCache_LongExpiry(key, data, replied) ==
    IF ~isOpen THEN [cache |-> cache, cmd |-> 0, fault |-> 1]
    ELSE IF ~replied THEN [cache |-> cache, cmd |-> 1, fault |-> 1]
    ELSE [cache |-> [cache EXCEPT ![key] = Entry(data, 2 * CACHE_TTL)],
          cmd |-> 1, fault |-> 0]

\* setToCache(key, data, ttl = CACHE_TTL)
setToCache(key, data, replied) ==
    IF ~isOpen THEN [cache |-> cache, cmd |-> 0, fault |-> 1]
    ELSE IF ~replied THEN [cache |-> cache, cmd |-> 1, fault |-> 1]
    ELSE [cache |-> [cache EXCEPT ![key] = Entry(data, CACHE_TTL)],
          cmd |-> 1, fault |-> 0]

\* ------------------------------------------------------------ GET /api/books
\* the handler has answered (one more response sent): its locals are gone
Finish(r, res) ==
    [r EXCEPT !.pc = "done", !.res = res, !.rows = <<>>, !.keys = {}, !.insertId = 0,
              !.sent = @ + 1]
Counted(r, h) == [r EXCEPT !.cmds = @ + h.cmd, !.faults = @ + h.fault]

\* mutant: the cache hit answers without return, the handler goes on to the
\* store and answers again
ReadAll_Get_NoReturn(s) ==
    /\ CanStart(s)
    /\ \E replied \in BOOLEAN :
         LET g == getFromCache(AllKey, replied)
             r == Counted(NewReq("getAll", "", NoBody), g)
         IN  /\ req' = [req EXCEPT ![s] =
                    IF g.val # JNone
                    THEN [r EXCEPT !.hit = TRUE, !.sent = @ + 1, !.pc = "query",
                                   !.res = Res(200, g.val, FALSE, "", "")]
                    ELSE [r EXCEPT !.pc = "query"]]
             /\ cacheFaults' = (cacheFaults \/ g.fault = 1)
    /\ started' = started + 1
    /\ UNCHANGED <<store, nextId, now, cache, isOpen, poolOpen, main, acked>>
    /\ UNCHANGED <<startVars, time, valVars>>

\* request accepted; const cached = await getFromCache('books:all');
\* if (cached) return res.json(cached)
ReadAll_Get(s) ==
    /\ CanStart(s)
    /\ \E replied \in BOOLEAN :
         LET g == getFromCache(AllKey, replied)
             r == Counted(NewReq("getAll", "", NoBody), g)
         IN  /\ req' = [req EXCEPT ![s] =
                    IF g.val # JNone
                    THEN Finish([r EXCEPT !.hit = TRUE], Res(200, g.val, FALSE, "", ""))
                    ELSE [r EXCEPT !.pc = "query"]]
             /\ cacheFaults' = (cacheFaults \/ g.fault = 1)
    /\ started' = started + 1
    /\ UNCHANGED <<store, nextId, now, cache, isOpen, poolOpen, main, acked>>
    /\ UNCHANGED <<startVars, time, valVars>>

\* const [rows] = await pool.query('SELECT * FROM books ORDER BY created_at DESC')
ReadAll_Query(s) ==
    /\ Running
    /\ req[s].op = "getAll" /\ req[s].pc = "query"
    /\ \E answered \in BOOLEAN :
         req' = [req EXCEPT ![s] =
            IF answered /\ poolOpen
            THEN [@ EXCEPT !.pc = "set", !.rows = SelectAll(store),
                           !.queries = @ + 1, !.outcome = "rows"]
            ELSE Finish([@ EXCEPT !.outcome = "error", !.queries = @ + 1],
                        ErrorRes(500, "Failed to fetch books"))]
    /\ UNCHANGED <<store, nextId, now, cache, isOpen, poolOpen, main, started,
                   acked, cacheFaults>>
    /\ UNCHANGED <<startVars, time, valVars>>

\* await setToCache('books:all', rows); res.json(rows)
ReadAll_Set(s) ==
    /\ Running
    /\ req[s].op = "getAll" /\ req[s].pc = "set"
    /\ \E replied \in BOOLEAN :
         LET doc == JList(JsonOfRows(req[s].rows))
             w   == setToCache(AllKey, doc, replied)
         IN  /\ cache' = w.cache
             /\ req' = [req EXCEPT ![s] =
                    Finish(Counted(@, w), Res(200, doc, FALSE, "", ""))]
             /\ cacheFaults' = (cacheFaults \/ w.fault = 1)
    /\ UNCHANGED <<store, nextId, now, isOpen, poolOpen, main, started, acked>>
    /\ UNCHANGED <<startVars, time, valVars>>

\* -------------------------------------------------------- GET /api/books/:id
\* the clock value of the row of p when the mutation that wrote it has been
\* acknowledged to its client, else -1
AckedStamp(p) ==
    IF \E i \in Matches(store, p) : store[i].updated_at.v \in acked
    THEN store[CHOOSE i \in Matches(store, p) : TRUE].updated_at.v
    ELSE -1

\* const cacheKey = `books:${req.params.id}`; cached = await getFromCache(cacheKey);
\* if (cached) return res.json({ ...cached, fromCache: true })
ReadOne_Get(s) ==
    /\ CanStart(s)
    /\ \E p \in PathIds, replied \in BOOLEAN :
         LET g == getFromCache(CacheKey(p), replied)
             r == Counted([NewReq("getOne", p, NoBody) EXCEPT
                               !.sawAcked = AckedStamp(p)], g)
         IN  /\ req' = [req EXCEPT ![s] =
                    IF g.val # JNone
                    THEN Finish([r EXCEPT !.hit = TRUE],
                                Res(200, Spread(g.val), TRUE, "", ""))
                    ELSE [r EXCEPT !.pc = "query"]]
             /\ cacheFaults' = (cacheFaults \/ g.fault = 1)
    /\ started' = started + 1
    /\ UNCHANGED <<store, nextId, now, cache, isOpen, poolOpen, main, acked>>
    /\ UNCHANGED <<startVars, time, valVars>>

\* const [rows] = await pool.query('SELECT * FROM books WHERE id = ?', [id]);
\* if (rows.length === 0) return res.status(404)...
ReadOne_Query(s) ==
    /\ Running
    /\ req[s].op = "getOne" /\ req[s].pc = "query"
    /\ \E answered \in BOOLEAN :
         req' = [req EXCEPT ![s] =
            IF answered /\ poolOpen
            THEN LET rows == SelectById(store, @.id)
                     q    == [@ EXCEPT !.rows = rows, !.queries = @ + 1,
                                       !.outcome = "rows"]
                 IN  IF Len(rows) = 0
                     THEN Finish(q, ErrorRes(404, "Book not found"))
                     ELSE [q EXCEPT !.pc = "set"]
            ELSE Finish([@ EXCEPT !.outcome = "error", !.queries = @ + 1],
                        ErrorRes(500, "Failed to fetch book"))]
    /\ UNCHANGED <<store, nextId, now, cache, isOpen, poolOpen, main, started,
                   acked, cacheFaults>>
    /\ UNCHANGED <<startVars, time, valVars>>

\* mutant: setToCache without its try/catch, the handler's catch answers 500
ReadOne_Set_Unguarded(s) ==
    /\ Running
    /\ req[s].op = "getOne" /\ req[s].pc = "set"
    /\ \E replied \in BOOLEAN :
         LET doc == JBook(JsonOfObject(req[s].rows[1]))
             w   == setToCache(CacheKey(req[s].id), doc, replied)
         IN  /\ cache' = w.cache
             /\ req' = [req EXCEPT ![s] =
                    IF w.fault = 1 /\ w.cmd = 1
                    THEN Finish(Counted(@, w), ErrorRes(500, "Failed to fetch book"))
                    ELSE Finish(Counted(@, w), Res(200, doc, FALSE, "", ""))]
             /\ cacheFaults' = (cacheFaults \/ w.fault = 1)
    /\ UNCHANGED <<store, nextId, now, isOpen, poolOpen, main, started, acked>>
    /\ UNCHANGED <<startVars, time, valVars>>

\* await setToCache(cacheKey, rows[0]); res.json(rows[0])
ReadOne_Set(s) ==
    /\ Running
    /\ req[s].op = "getOne" /\ req[s].pc = "set"
    /\ \E replied \in BOOLEAN :
         LET doc == JBook(JsonOfObject(req[s].rows[1]))
             w   == setToCache(CacheKey(req[s].id), doc, replied)
         IN  /\ cache' = w.cache
             /\ req' = [req EXCEPT ![s] =
                    Finish(Counted(@, w), Res(200, doc, FALSE, "", ""))]
             /\ cacheFaults' = (cacheFaults \/ w.fault = 1)
    /\ UNCHANGED <<store, nextId, now, isOpen, poolOpen, main, started, acked>>
    /\ UNCHANGED <<startVars, time, valVars>>

\* ----------------------------------------------------------- POST /api/books
\* mutant: the POST handler without its checks
PostValidation_None(b) == "ok"

\* The checks of the POST handler in order; "throw" is the TypeError of
\* validateISBN on a value that is not a string.
PostValidation(b) ==
    CASE ~Truthy(b.title) \/ ~Truthy(b.author) \/ ~Truthy(b.isbn) -> "required"
      [] validateISBNThrows(b.isbn) -> "throw"
      [] ~validateISBN(b.isbn) -> "isbn"
      [] b.price # Undefined /\ ~validatePrice(b.price) -> "price"
      [] b.stock # Undefined /\ ~validateStock(b.stock) -> "stock"
      [] OTHER -> "ok"

\* The checks of the PUT handler in order.
PutValidation(b) ==
    CASE Truthy(b.isbn) /\ validateISBNThrows(b.isbn) -> "throw"
      [] Truthy(b.isbn) /\ ~validateISBN(b.isbn) -> "isbn"
      [] b.price # Undefined /\ ~validatePrice(b.price) -> "price"
      [] b.stock # Undefined /\ ~validateStock(b.stock) -> "stock"
      [] OTHER -> "ok"

ValidationError(v) ==
    CASE v = "required" -> "Title, author, and ISBN are required"
      [] v = "isbn"     -> "Invalid ISBN format. Must be ISBN-10 or ISBN-13"
      [] v = "price"    -> "Invalid price. Must be between 0 and 10000"
      [] v = "stock"    -> "Invalid stock. Must be between 0 and 100000"

Echo(id, b) ==
    JBook(JsonOfObject([id |-> id, title |-> b.title, author |-> b.author,
                        isbn |-> b.isbn, price |-> b.price, stock |-> b.stock]))

\* the response of a write handler after await invalidateCache()
SuccessRes(r) ==
    CASE r.op = "post" ->
            Res(201, Echo(Num(r.insertId), r.body), FALSE, "", "Book created successfully")
      [] r.op = "put" ->
            Res(200, Echo(parseIntPath(r.id), r.body), FALSE, "", "Book updated successfully")
      [] r.op = "delete" ->
            Res(200, JNone, FALSE, "", "Book deleted successfully")

\* request accepted; validation; await pool.query('INSERT INTO books ...');
\* catch: ER_DUP_ENTRY -> 409, anything else -> 500
Post_Query(s) ==
    /\ CanStart(s)
    /\ nextId <= MaxId
    /\ \E b \in Bodies, answered \in BOOLEAN :
         LET r == NewReq("post", "", b)
             v == PostValidation(b)
         IN  IF v = "throw"
             THEN /\ req' = [req EXCEPT ![s] =
                        Finish(r, ErrorRes(500, "Failed to create book"))]
                  /\ UNCHANGED <<store, nextId, now>>
             ELSE IF v # "ok"
             THEN /\ req' = [req EXCEPT ![s] =
                        Finish(r, ErrorRes(400, ValidationError(v)))]
                  /\ UNCHANGED <<store, nextId, now>>
             ELSE IF ~(answered /\ poolOpen)
             THEN /\ req' = [req EXCEPT ![s] =
                        Finish([r EXCEPT !.outcome = "error", !.queries = 1],
                               ErrorRes(500, "Failed to create book"))]
                  /\ UNCHANGED <<store, nextId, now>>
             ELSE IF DupIsbn(store, b.isbn, {})
             THEN /\ req' = [req EXCEPT ![s] =
                        Finish([r EXCEPT !.outcome = "dup", !.queries = 1],
                               ErrorRes(409, "Book with this ISBN already exists"))]
                  /\ UNCHANGED <<store, nextId, now>>
             ELSE /\ store' = [store EXCEPT ![nextId] = InsertRow(nextId, b, now + 1)]
                  /\ nextId' = nextId + 1
                  /\ now' = now + 1
                  /\ req' = [req EXCEPT ![s] =
                        [r EXCEPT !.pc = "keys", !.insertId = nextId,
                                  !.queries = 1, !.outcome = "ok",
                                  !.stamp = now + 1]]
    /\ started' = started + 1
    /\ UNCHANGED <<cache, isOpen, poolOpen, main, acked, cacheFaults>>
    /\ UNCHANGED <<startVars, time, valVars>>

\* -------------------------------------------------------- PUT /api/books/:id
\* request accepted; validation; await pool.query('UPDATE books SET ...');
\* affectedRows === 0 -> 404; catch -> 500
Put_Query(s) ==
    /\ CanStart(s)
    /\ \E p \in NumericIds, b \in Bodies, answered \in BOOLEAN :
         LET r == NewReq("put", p, b)
             v == PutValidation(b)
             m == Matches(store, p)
         IN  IF v = "throw"
             THEN /\ req' = [req EXCEPT ![s] =
                        Finish(r, ErrorRes(500, "Failed to update book"))]
                  /\ UNCHANGED <<store, now>>
             ELSE IF v # "ok"
             THEN /\ req' = [req EXCEPT ![s] =
                        Finish(r, ErrorRes(400, ValidationError(v)))]
                  /\ UNCHANGED <<store, now>>
             ELSE IF ~(answered /\ poolOpen)
             THEN /\ req' = [req EXCEPT ![s] =
                        Finish([r EXCEPT !.outcome = "error", !.queries = 1],
                               ErrorRes(500, "Failed to update book"))]
                  /\ UNCHANGED <<store, now>>
             ELSE IF m = {}
             THEN /\ req' = [req EXCEPT ![s] =
                        Finish([r EXCEPT !.outcome = "nomatch", !.queries = 1],
                               ErrorRes(404, "Book not found"))]
                  /\ UNCHANGED <<store, now>>
             ELSE IF NullParam(b.title) \/ NullParam(b.author) \/ NullParam(b.isbn)
             THEN \* ER_BAD_NULL_ERROR: a NOT NULL column set to NULL
                  /\ req' = [req EXCEPT ![s] =
                        Finish([r EXCEPT !.outcome = "badnull", !.queries = 1],
                               ErrorRes(500, "Failed to update book"))]
                  /\ UNCHANGED <<store, now>>
             ELSE IF DupIsbn(store, b.isbn, m)
             THEN \* ER_DUP_ENTRY, not told apart by the PUT handler
                  /\ req' = [req EXCEPT ![s] =
                        Finish([r EXCEPT !.outcome = "dup", !.queries = 1],
                               ErrorRes(500, "Failed to update book"))]
                  /\ UNCHANGED <<store, now>>
             ELSE /\ store' = [i \in RowIds |->
                        IF i \in m THEN UpdateRow(store[i], b, now + 1) ELSE store[i]]
                  /\ now' = now + 1
                  /\ req' = [req EXCEPT ![s] =
                        [r EXCEPT !.pc = "keys", !.queries = 1,
                                  !.outcome = "ok", !.stamp = now + 1]]
    /\ started' = started + 1
    /\ UNCHANGED <<nextId, cache, isOpen, poolOpen, main, acked, cacheFaults>>
    /\ UNCHANGED <<startVars, time, valVars>>

\* mutant: DELETE without the affectedRows === 0 test
Delete_Query_NoRowCheck(s) ==
    /\ CanStart(s)
    /\ \E p \in NumericIds, answered \in BOOLEAN :
         LET r == NewReq("delete", p, NoBody)
             m == Matches(store, p)
         IN  IF ~(answered /\ poolOpen)
             THEN /\ req' = [req EXCEPT ![s] =
                        Finish([r EXCEPT !.outcome = "error", !.queries = 1],
                               ErrorRes(500, "Failed to delete book"))]
                  /\ UNCHANGED <<store, now>>
             ELSE /\ store' = [i \in RowIds |-> IF i \in m THEN NoRow ELSE store[i]]
                  /\ now' = now + 1
                  /\ req' = [req EXCEPT ![s] =
                        [r EXCEPT !.pc = "keys", !.queries = 1,
                                  !.outcome = "ok", !.stamp = now + 1]]
    /\ started' = started + 1
    /\ UNCHANGED <<nextId, cache, isOpen, poolOpen, main, acked, cacheFaults>>
    /\ UNCHANGED <<startVars, time, valVars>>

\* mutant: DELETE calls invalidateCache() before it looks at affectedRows
Delete_Query_InvalidatesFirst(s) ==
    /\ CanStart(s)
    /\ \E p \in NumericIds, answered \in BOOLEAN :
         LET r == NewReq("delete", p, NoBody)
             m == Matches(store, p)
         IN  IF ~(answered /\ poolOpen)
             THEN /\ req' = [req EXCEPT ![s] =
                        Finish([r EXCEPT !.outcome = "error", !.queries = 1],
                               ErrorRes(500, "Failed to delete book"))]
                  /\ UNCHANGED <<store, now, cache>>
             ELSE IF m = {}
             THEN /\ req' = [req EXCEPT ![s] =
                        Finish([r EXCEPT !.outcome = "nomatch", !.queries = 1,
                                         !.cmds = IF isOpen THEN 2 ELSE 0],
                               ErrorRes(404, "Book not found"))]
                  /\ cache' = IF isOpen THEN DelKeys(cache, Keys) ELSE cache
                  /\ UNCHANGED <<store, now>>
             ELSE /\ store' = [i \in RowIds |-> IF i \in m THEN NoRow ELSE store[i]]
                  /\ now' = now + 1
                  /\ req' = [req EXCEPT ![s] =
                        [r EXCEPT !.pc = "keys", !.queries = 1,
                                  !.outcome = "ok", !.stamp = now + 1]]
                  /\ UNCHANGED cache
    /\ started' = started + 1
    /\ UNCHANGED <<nextId, isOpen, poolOpen, main, acked, cacheFaults>>
    /\ UNCHANGED <<startVars, time, valVars>>

\* ----------------------------------------------------- DELETE /api/books/:id
\* request accepted; await pool.query('DELETE FROM books WHERE id = ?');
\* affectedRows === 0 -> 404; catch -> 500
Delete_Query(s) ==
    /\ CanStart(s)
    /\ \E p \in NumericIds, answered \in BOOLEAN :
         LET r == NewReq("delete", p, NoBody)
             m == Matches(store, p)
         IN  IF ~(answered /\ poolOpen)
             THEN /\ req' = [req EXCEPT ![s] =
                        Finish([r EXCEPT !.outcome = "error", !.queries = 1],
                               ErrorRes(500, "Failed to delete book"))]
                  /\ UNCHANGED <<store, now>>
             ELSE IF m = {}
             THEN /\ req' = [req EXCEPT ![s] =
                        Finish([r EXCEPT !.outcome = "nomatch", !.queries = 1],
                               ErrorRes(404, "Book not found"))]
                  /\ UNCHANGED <<store, now>>
             ELSE /\ store' = [i \in RowIds |-> IF i \in m THEN NoRow ELSE store[i]]
                  /\ now' = now + 1
                  /\ req' = [req EXCEPT ![s] =
                        [r EXCEPT !.pc = "keys", !.queries = 1,
                                  !.outcome = "ok", !.stamp = now + 1]]
    /\ started' = started + 1
    /\ UNCHANGED <<nextId, cache, isOpen, poolOpen, main, acked, cacheFaults>>
    /\ UNCHANGED <<startVars, time, valVars>>

\* ------------------------------------------------------- invalidateCache()
\* called with the default pattern 'books:*' by the three write handlers after
\* their store query succeeded; the handler answers when it returns.
Answer(s, r) ==
    /\ req' = [req EXCEPT ![s] = Finish(r, SuccessRes(r))]
    /\ acked' = acked \cup {r.stamp}

Failed(r, sent) == [r EXCEPT !.cmds = @ + sent, !.faults = @ + 1]

\* mutant: invalidateCache() called without await, the handler answers as
\* soon as the KEYS command has returned
Invalidate_Keys_NoAwait(s) ==
    /\ Running
    /\ req[s].pc = "keys"
    /\ \E replied \in BOOLEAN :
         IF ~isOpen
         THEN /\ Answer(s, Failed(req[s], 0))
              /\ cacheFaults' = TRUE
         ELSE IF ~replied
         THEN /\ Answer(s, Failed(req[s], 1))
              /\ cacheFaults' = TRUE
         ELSE /\ Answer(s, [req[s] EXCEPT !.cmds = @ + 1])
              /\ UNCHANGED cacheFaults
    /\ UNCHANGED <<store, nextId, now, cache, isOpen, poolOpen, main, started>>
    /\ UNCHANGED <<startVars, time, valVars>>

\* if (!redisClient?.isOpen) return; const keys = await redisClient.keys(pattern)
Invalidate_Keys(s) ==
    /\ Running
    /\ req[s].pc = "keys"
    /\ \E replied \in BOOLEAN :
         IF ~isOpen
         THEN /\ Answer(s, Failed(req[s], 0))
              /\ cacheFaults' = TRUE
         ELSE IF ~replied
         THEN /\ Answer(s, Failed(req[s], 1))
              /\ cacheFaults' = TRUE
         ELSE LET keys == KeysMatching(cache)
              IN  /\ req' = [req EXCEPT ![s] =
                         [@ EXCEPT !.keys = keys, !.cmds = @ + 1,
                                   !.pc = IF keys # {} THEN "del" ELSE "delAll"]]
                  /\ UNCHANGED <<acked, cacheFaults>>
    /\ UNCHANGED <<store, nextId, now, cache, isOpen, poolOpen, main, started>>
    /\ UNCHANGED <<startVars, time, valVars>>

\* mutant: the del(keys) of invalidateCache deletes nothing
Invalidate_Del_KeepsKeys(s) ==
    /\ Running
    /\ req[s].pc = "del"
    /\ req' = [req EXCEPT ![s] = [@ EXCEPT !.cmds = @ + 1, !.pc = "delAll"]]
    /\ UNCHANGED <<acked, cacheFaults, cache>>
    /\ UNCHANGED <<store, nextId, now, isOpen, poolOpen, main, started>>
    /\ UNCHANGED <<startVars, time, valVars>>

\* if (keys.length > 0) await redisClient.del(keys)
\* (a client closed in the meantime rejects the command without sending it)
Invalidate_Del(s) ==
    /\ Running
    /\ req[s].pc = "del"
    /\ \E replied \in BOOLEAN :
         IF ~isOpen
         THEN /\ Answer(s, Failed(req[s], 0))
              /\ cacheFaults' = TRUE
              /\ UNCHANGED cache
         ELSE IF ~replied
         THEN /\ Answer(s, Failed(req[s], 1))
              /\ cacheFaults' = TRUE
              /\ UNCHANGED cache
         ELSE /\ cache' = DelKeys(cache, req[s].keys)
              /\ req' = [req EXCEPT ![s] = [@ EXCEPT !.cmds = @ + 1, !.pc = "delAll"]]
              /\ UNCHANGED <<acked, cacheFaults>>
    /\ UNCHANGED <<store, nextId, now, isOpen, poolOpen, main, started>>
    /\ UNCHANGED <<startVars, time, valVars>>

\* await redisClient.del('books:all'); back in the handler: res.json(...)
Invalidate_DelAll(s) ==
    /\ Running
    /\ req[s].pc = "delAll"
    /\ \E replied \in BOOLEAN :
         IF ~isOpen
         THEN /\ Answer(s, Failed(req[s], 0))
              /\ cacheFaults' = TRUE
              /\ UNCHANGED cache
         ELSE IF ~replied
         THEN /\ Answer(s, Failed(req[s], 1))
              /\ cacheFaults' = TRUE
              /\ UNCHANGED cache
         ELSE /\ cache' = DelKeys(cache, {AllKey})
              /\ Answer(s, [req[s] EXCEPT !.cmds = @ + 1])
              /\ UNCHANGED cacheFaults
    /\ UNCHANGED <<store, nextId, now, isOpen, poolOpen, main, started>>
    /\ UNCHANGED <<startVars, time, valVars>>

\* ------------------------------------------------------- a cache that hangs
\* The command a handler awaits (setEx, keys, del) has been sent and the
\* cache service never answers it: the client sets no timeout on a command,
\* so the promise never settles and the handler stays at its await.
CacheHangs(s) ==
    /\ Running
    /\ isOpen
    /\ req[s].pc \in {"set", "keys", "del", "delAll"}
    /\ req' = [req EXCEPT ![s] = [@ EXCEPT !.pc = "hung", !.cmds = @ + 1]]
    /\ UNCHANGED <<store, nextId, now, cache, isOpen, poolOpen, main, started,
                   acked, cacheFaults>>
    /\ UNCHANGED <<startVars, time, valVars>>

\* ------------------------------------------------------------ GET /api/ready
\* the cache member of the readiness body: redisClient?.isOpen ? ... : ...
CacheField(open) == IF open THEN "connected" ELSE "disconnected"
\* the two bodies of the readiness check (timestamp and error text left out)
ReadyRes(open) ==
    Res(200, JBook([status |-> "ready", database |-> "connected",
                    cache |-> CacheField(open)]), FALSE, "", "")
NotReadyRes(open) ==
    Res(503, JBook([status |-> "not ready", database |-> "disconnected",
                    cache |-> CacheField(open)]), FALSE, "", "")

\* request accepted; const connection = await pool.getConnection();
\* a rejection (no connection to be had, pool ended) goes to the catch: 503
Ready_GetConnection(s) ==
    /\ CanStart(s)
    /\ \E acquired \in BOOLEAN :
         LET r == [NewReq("ready", "", NoBody) EXCEPT !.queries = 1]
         IN  req' = [req EXCEPT ![s] =
                IF acquired /\ poolOpen
                THEN [r EXCEPT !.pc = "ping"]
                ELSE Finish([r EXCEPT !.outcome = "error"], NotReadyRes(isOpen))]
    /\ started' = started + 1
    /\ UNCHANGED <<store, nextId, now, cache, isOpen, poolOpen, main, acked,
                   cacheFaults>>
    /\ UNCHANGED <<startVars, time, valVars>>

\* mutant: the readiness check answers 503 when the cache client is not open
Ready_Ping_NeedsCache(s) ==
    /\ Running
    /\ req[s].op = "ready" /\ req[s].pc = "ping"
    /\ \E pinged \in BOOLEAN :
         req' = [req EXCEPT ![s] =
            IF pinged
            THEN Finish([@ EXCEPT !.outcome = "ok", !.queries = @ + 1],
                        IF isOpen THEN ReadyRes(isOpen) ELSE NotReadyRes(isOpen))
            ELSE Finish([@ EXCEPT !.outcome = "error", !.queries = @ + 1],
                        NotReadyRes(isOpen))]
    /\ UNCHANGED <<store, nextId, now, cache, isOpen, poolOpen, main, started,
                   acked, cacheFaults>>
    /\ UNCHANGED <<startVars, time, valVars>>

\* await connection.ping(); connection.release(); res.json({status: 'ready',
\* ...}); a rejected ping goes to the catch: 503
Ready_Ping(s) ==
    /\ Running
    /\ req[s].op = "ready" /\ req[s].pc = "ping"
    /\ \E pinged \in BOOLEAN :
         req' = [req EXCEPT ![s] =
            IF pinged
            THEN Finish([@ EXCEPT !.outcome = "ok", !.queries = @ + 1],
                        ReadyRes(isOpen))
            ELSE Finish([@ EXCEPT !.outcome = "error", !.queries = @ + 1],
                        NotReadyRes(isOpen))]
    /\ UNCHANGED <<store, nextId, now, cache, isOpen, poolOpen, main, started,
                   acked, cacheFaults>>
    /\ UNCHANGED <<startVars, time, valVars>>

\* ----------------------------------------------------------- GET /api/health
\* res.json({ status: 'ok', timestamp, uptime }): the handler answers at once
\* and touches neither the store nor the cache (timestamp and uptime left out)
HealthRes == Res(200, JBook([status |-> "ok"]), FALSE, "", "")
Health(s) ==
    /\ CanStart(s)
    /\ req' = [req EXCEPT ![s] = Finish(NewReq("health", "", NoBody), HealthRes)]
    /\ started' = started + 1
    /\ UNCHANGED <<store, nextId, now, cache, isOpen, poolOpen, main, acked,
                   cacheFaults>>
    /\ UNCHANGED <<startVars, time, valVars>>

\* ------------------------------------------------- validation of a body
\* request bodies handed to the validation of POST and of PUT on its own
BodyInputs ==
    { [title |-> ti, author |-> au, isbn |-> is, price |-> pr, stock |-> st] :
        ti \in {Str(<<"A">>), Str(<<>>), Undefined},
        au \in {Str(<<"w">>), Undefined},
        is \in {Str(ISBN10), Str(ISBNBad), Undefined, Num(12345)},
        pr \in {Dec(1299), Undefined, Dec(-100), Str(<<"a", "b", "c">>)},
        st \in {Num(5), Undefined, Num(100001)} }

InitBodies ==
    /\ store = [i \in RowIds |-> IF i = 1 THEN SeedRow ELSE NoRow]
    /\ nextId = 2
    /\ now = 0
    /\ cache = [k \in Keys |-> NoEntry]
    /\ isOpen = FALSE
    /\ poolOpen = TRUE
    /\ main = "listening"
    /\ req = [s \in Slots |-> Idle]
    /\ started = 0
    /\ acked = {}
    /\ cacheFaults = FALSE
    /\ retries = StartRetries
    /\ pool = TRUE
    /\ connected = TRUE
    /\ clockMs = 0
    /\ attemptTimes = <<0>>
    /\ time = 0
    /\ input \in BodyInputs
    /\ verdict = NoVerdict

\* the checks POST /api/books makes on req.body before its query
Call_PostValidation ==
    /\ verdict = NoVerdict
    /\ verdict' = [fn |-> "PostValidation", out |-> PostValidation(input)]
    /\ UNCHANGED <<store, nextId, now, cache, isOpen, poolOpen, main, req,
                   started, acked, cacheFaults, startVars, time, input>>

\* the checks PUT /api/books/:id makes on req.body before its query
Call_PutValidation ==
    /\ verdict = NoVerdict
    /\ verdict' = [fn |-> "PutValidation", out |-> PutValidation(input)]
    /\ UNCHANGED <<store, nextId, now, cache, isOpen, poolOpen, main, req,
                   started, acked, cacheFaults, startVars, time, input>>

NextBodies ==
    \/ Call_PostValidation
    \/ Call_PutValidation

SpecBodies == InitBodies /\ [][NextBodies]_vars

\* ------------------------------------------------------------ specification
Next ==
    \/ initRedis
    \/ Sigterm
    \/ SigtermEnd
    \/ SigtermExit
    \/ \E s \in Slots : ReadAll_Get(s)
    \/ \E s \in Slots : ReadAll_Query(s)
    \/ \E s \in Slots : ReadAll_Set(s)
    \/ \E s \in Slots : ReadOne_Get(s)
    \/ \E s \in Slots : ReadOne_Query(s)
    \/ \E s \in Slots : ReadOne_Set(s)
    \/ \E s \in Slots : Post_Query(s)
    \/ \E s \in Slots : Put_Query(s)
    \/ \E s \in Slots : Delete_Query(s)
    \/ \E s \in Slots : Invalidate_Keys(s)
    \/ \E s \in Slots : Invalidate_Del(s)
    \/ \E s \in Slots : Invalidate_DelAll(s)

Spec == Init /\ [][Next]_vars

\* The same handlers with one request at a time: a request is accepted only
\* when no other is in flight, so slot 1 serves them all.
NextSeq ==
    \/ initRedis
    \/ Sigterm
    \/ SigtermEnd
    \/ SigtermExit
    \/ ReadAll_Get(1)
    \/ ReadAll_Query(1)
    \/ ReadAll_Set(1)
    \/ ReadOne_Get(1)
    \/ ReadOne_Query(1)
    \/ ReadOne_Set(1)
    \/ Post_Query(1)
    \/ Put_Query(1)
    \/ Delete_Query(1)
    \/ Invalidate_Keys(1)
    \/ Invalidate_Del(1)
    \/ Invalidate_DelAll(1)

SpecSeq == Init /\ [][NextSeq]_vars

\* Every endpoint, one request at a time.
NextEndpoints ==
    \/ initRedis
    \/ Sigterm
    \/ SigtermEnd
    \/ SigtermExit
    \/ ReadAll_Get(1)
    \/ ReadAll_Query(1)
    \/ ReadAll_Set(1)
    \/ ReadOne_Get(1)
    \/ ReadOne_Query(1)
    \/ ReadOne_Set(1)
    \/ Post_Query(1)
    \/ Put_Query(1)
    \/ Delete_Query(1)
    \/ Invalidate_Keys(1)
    \/ Invalidate_Del(1)
    \/ Invalidate_DelAll(1)
    \/ Health(1)
    \/ Ready_GetConnection(1)
    \/ Ready_Ping(1)

SpecEndpoints == Init /\ [][NextEndpoints]_vars

\* Writes that overlap each other but no read: a read is accepted only when
\* no write is in flight, a write only when no read is in flight.
NoWriteInFlight == \A q \in Slots : req[q].pc \notin {"keys", "del", "delAll"}
NoReadInFlight == \A q \in Slots : req[q].op \in {"getAll", "getOne"} => Free(q)
NextWriters ==
    \/ initRedis
    \/ Sigterm
    \/ SigtermEnd
    \/ SigtermExit
    \/ \E s \in Slots : NoWriteInFlight /\ ReadAll_Get(s)
    \/ \E s \in Slots : ReadAll_Query(s)
    \/ \E s \in Slots : ReadAll_Set(s)
    \/ \E s \in Slots : NoWriteInFlight /\ ReadOne_Get(s)
    \/ \E s \in Slots : ReadOne_Query(s)
    \/ \E s \in Slots : ReadOne_Set(s)
    \/ \E s \in Slots : NoReadInFlight /\ Post_Query(s)
    \/ \E s \in Slots : NoReadInFlight /\ Put_Query(s)
    \/ \E s \in Slots : NoReadInFlight /\ Delete_Query(s)
    \/ \E s \in Slots : Invalidate_Keys(s)
    \/ \E s \in Slots : Invalidate_Del(s)
    \/ \E s \in Slots : Invalidate_DelAll(s)

SpecWriters == Init /\ [][NextWriters]_vars

\* Time passes at the cache service, half a TTL at a time: an entry set with
\* SETEX is gone once its expiry has run out (an entry set without expiry
\* stays).
TickSecs == CACHE_TTL \div 2
Expired(e, t) == e # NoEntry /\ e.ttl >= 0 /\ t >= e.at + e.ttl
Tick ==
    /\ time < MaxTicks * TickSecs
    /\ time' = time + TickSecs
    /\ cache' = [k \in Keys |-> IF Expired(cache[k], time') THEN NoEntry ELSE cache[k]]
    /\ UNCHANGED <<store, nextId, now, isOpen, poolOpen, main, req, started,
                   acked, cacheFaults, startVars, valVars>>

\* The handlers one request at a time, with a cache service that may stop
\* answering, in a process that is not terminated.
NextHang ==
    \/ initRedis
    \/ ReadAll_Get(1)
    \/ ReadAll_Query(1)
    \/ ReadAll_Set(1)
    \/ ReadOne_Get(1)
    \/ ReadOne_Query(1)
    \/ ReadOne_Set(1)
    \/ Post_Query(1)
    \/ Put_Query(1)
    \/ Delete_Query(1)
    \/ Invalidate_Keys(1)
    \/ Invalidate_Del(1)
    \/ Invalidate_DelAll(1)
    \/ CacheHangs(1)

\* a step of the handler in slot s that follows an answer of the store or of
\* the cache
Proceeds(s) ==
    \/ ReadAll_Query(s)
    \/ ReadAll_Set(s)
    \/ ReadOne_Query(s)
    \/ ReadOne_Set(s)
    \/ Invalidate_Keys(s)
    \/ Invalidate_Del(s)
    \/ Invalidate_DelAll(s)

\* the store always answers, and so does the cache unless it hangs
SpecHang == Init /\ [][NextHang]_vars /\ WF_vars(Proceeds(1))

\* The book endpoints, one request at a time, with a store and a cache whose
\* calls all return (with a result or an error).
NextReturns ==
    \/ initRedis
    \/ ReadAll_Get(1)
    \/ ReadAll_Query(1)
    \/ ReadAll_Set(1)
    \/ ReadOne_Get(1)
    \/ ReadOne_Query(1)
    \/ ReadOne_Set(1)
    \/ Post_Query(1)
    \/ Put_Query(1)
    \/ Delete_Query(1)
    \/ Invalidate_Keys(1)
    \/ Invalidate_Del(1)
    \/ Invalidate_DelAll(1)

SpecReturns == Init /\ [][NextReturns]_vars /\ WF_vars(Proceeds(1))

\* The readiness check next to GET /api/books, requests overlapping.
NextReady ==
    \/ initRedis
    \/ Sigterm
    \/ SigtermEnd
    \/ SigtermExit
    \/ \E s \in Slots : Ready_GetConnection(s)
    \/ \E s \in Slots : Ready_Ping(s)
    \/ \E s \in Slots : ReadAll_Get(s)
    \/ \E s \in Slots : ReadAll_Query(s)
    \/ \E s \in Slots : ReadAll_Set(s)

SpecReady == Init /\ [][NextReady]_vars

\* The read handlers, one request at a time, while time passes.
NextTtl ==
    \/ Tick
    \/ initRedis
    \/ Sigterm
    \/ SigtermEnd
    \/ SigtermExit
    \/ ReadAll_Get(1)
    \/ ReadAll_Query(1)
    \/ ReadAll_Set(1)
    \/ ReadOne_Get(1)
    \/ ReadOne_Query(1)
    \/ ReadOne_Set(1)

SpecTtl == Init /\ [][NextTtl]_vars

\* The process from the call of startServer(): the retry loop, initRedis,
\* then the server listens and answers GET /api/books, one request at a time.
NextStart ==
    \/ initDatabase
    \/ RetrySleep
    \/ initRedis
    \/ Sigterm
    \/ SigtermEnd
    \/ SigtermExit
    \/ ReadAll_Get(1)
    \/ ReadAll_Query(1)
    \/ ReadAll_Set(1)

SpecStart == InitStart /\ [][NextStart]_vars

\* getConnection() settles and the timer fires: the loop's steps are taken.
SpecStartFair == SpecStart /\ WF_vars(initDatabase) /\ WF_vars(RetrySleep)

\* ================================================================ properties
Reads  == {"getAll", "getOne"}
Writes == {"post", "put", "delete"}

Quiescent == \A s \in Slots : Free(s)
\* the cache is connected and no cache operation has been skipped or has failed
Healthy == isOpen /\ ~cacheFaults
\* slot s receives a new request in this step
Accepted(s) == CanStart(s) /\ started' = started + 1
\* the request in slot s answers in this step
Answers(s) == req[s].pc \notin {"idle", "done"} /\ req'[s].pc = "done"

KeyOf(r) == IF r.op = "getAll" THEN AllKey ELSE CacheKey(r.id)

\* what the store holds for a cache key: the collection, a row, or nothing
StoreDoc(k) ==
    IF k = AllKey THEN JList(JsonOfRows(SelectAll(store)))
    ELSE LET rows == SelectById(store, CHOOSE p \in PathIds : CacheKey(p) = k)
         IN  IF Len(rows) = 0 THEN JNone ELSE JBook(JsonOfObject(rows[1]))

\* what the handlers answer a read with when they go to the store
UncachedRes(op, p) ==
    IF op = "getAll" THEN Res(200, StoreDoc(AllKey), FALSE, "", "")
    ELSE IF Len(SelectById(store, p)) = 0 THEN ErrorRes(404, "Book not found")
    ELSE Res(200, StoreDoc(CacheKey(p)), FALSE, "", "")

\* C1: with a connected, non-failing cache, once a successful write has been
\* answered and no handler is in flight, every cache entry equals what the
\* store holds for its key.
C1_NoStaleEntryWhenQuiet ==
    (Quiescent /\ Healthy /\ acked # {}) =>
        \A k \in Keys : cache[k] # NoEntry => cache[k].text = StoreDoc(k)

\* C2: a Read-one that starts after a create or update of its id was answered
\* (and finds the row as that write left it) answers 200 with the written row.
C2_ReadAfterWriteIsFresh ==
    \A s \in Slots :
        LET r == req[s]
        IN  (/\ r.pc = "done" /\ r.op = "getOne"
             /\ r.sawAcked >= 0
             /\ r.outcome # "error"
             /\ Healthy
             /\ \E i \in Matches(store, r.id) : store[i].updated_at.v = r.sawAcked)
            => /\ r.res.status = 200
               /\ r.res.doc.book = StoreDoc(CacheKey(r.id)).book

\* C3: when the invalidation of a successful write returns, with the cache
\* connected and no cache operation failing, the cache holds neither the key
\* of the affected id nor books:all.
AffectedKey(r) ==
    IF r.op = "post" THEN CacheKey(DigitStr[r.insertId]) ELSE CacheKey(r.id)
C3_InvalidationLeavesNoEntry ==
    [][\A s \in Slots :
          (/\ req[s].pc \in {"keys", "del", "delAll"}
           /\ req'[s].pc = "done"
           /\ isOpen' /\ ~cacheFaults')
          => /\ cache'[AffectedKey(req[s])] = NoEntry
             /\ cache'[AllKey] = NoEntry]_vars

\* the request in slot s is answered in this step (by whichever step)
DoneNow(s) == (Accepted(s) \/ Answers(s)) /\ req'[s].pc = "done"

\* C4: a write that fails (400, 404, 409 or 500) performs no cache operation:
\* its handler calls no cache helper, sends no cache command and leaves the
\* cache as it was.
C4_FailedWriteTouchesNoCache ==
    [][\A s \in Slots :
          (DoneNow(s) /\ req'[s].op \in Writes /\ req'[s].res.status >= 400)
          => /\ cache' = cache
             /\ req'[s].cmds = 0
             /\ req'[s].faults = 0]_vars
C4_Witness ==
    \E s \in Slots :
        /\ req[s].pc = "done" /\ req[s].op \in Writes
        /\ req[s].res.status \in {404, 409}
        /\ isOpen /\ cache[AllKey] # NoEntry

\* C5: when the cache answers a Read-one or Read-all with an entry for the
\* key, the handler answers 200 from that entry in the same step and sends no
\* store query.
C5_HitAnswersWithoutStore ==
    [][\A s \in Slots :
          (/\ Accepted(s) /\ req'[s].op \in Reads
           /\ isOpen /\ req'[s].faults = 0
           /\ cache[KeyOf(req'[s])] # NoEntry)
          => /\ req'[s].pc = "done"
             /\ req'[s].queries = 0
             /\ req'[s].res.status = 200
             /\ req'[s].res.doc.book = cache[KeyOf(req'[s])].text.book
             /\ req'[s].res.doc.list = cache[KeyOf(req'[s])].text.list]_vars
C5_Witness ==
    \E s \in Slots :
        /\ req[s].pc = "done" /\ req[s].op \in Reads /\ req[s].hit
        /\ req[s].res.status = 200 /\ req[s].queries = 0

\* C6: a Read-one that missed the cache and got a row from the store answers
\* 200 with that row; when the set is answered the cache holds books:{id} with
\* that row and the configured TTL, and a skipped or failing set changes
\* neither the response nor the cache.
C6_MissPopulatesCache ==
    [][\A s \in Slots :
          (req[s].op = "getOne" /\ req[s].pc = "set" /\ req'[s] # req[s])
          => LET row == JBook(JsonOfObject(req[s].rows[1]))
             IN  /\ req'[s].pc = "done"
                 /\ req'[s].res = Res(200, row, FALSE, "", "")
                 /\ IF req'[s].faults = req[s].faults
                    THEN cache' = [cache EXCEPT ![CacheKey(req[s].id)] =
                                      Entry(row, CACHE_TTL)]
                    ELSE cache' = cache]_vars
C6_Witness ==
    \E s \in Slots :
        /\ req[s].pc = "done" /\ req[s].op = "getOne" /\ ~req[s].hit
        /\ req[s].res.status = 200 /\ req[s].faults = 0
        /\ cache[CacheKey(req[s].id)] = Entry(req[s].res.doc, CACHE_TTL)

\* C7: a Read-one of a numeric id that has no row in the store, started when
\* every write that removed the row has been answered and the cache is
\* connected and has not failed, is not answered from the cache; it asks the
\* store, answers 404 and leaves the cache as it was.
C7_MissingIdIsNotFound ==
    [][\A s \in Slots :
          /\ (/\ Accepted(s) /\ req'[s].op = "getOne"
              /\ req'[s].id \in NumericIds
              /\ Matches(store, req'[s].id) = {}
              /\ NoWriteInFlight
              /\ isOpen /\ ~cacheFaults')
             => req'[s].pc = "query"
          /\ (/\ req[s].op = "getOne" /\ req[s].pc = "query"
              /\ req'[s] # req[s]
              /\ req[s].id \in NumericIds
              /\ req'[s].outcome # "error"
              /\ Matches(store, req[s].id) = {})
             => /\ req'[s].pc = "done"
                /\ req'[s].res.status = 404
                /\ cache' = cache]_vars

\* C8: a cache operation that fails never aborts the request nor changes what
\* it answers: a failed get is a miss and the handler goes on to the store, a
\* failed set still answers 200 with the store's rows, a failed key listing
\* or delete still answers the write's success; the store is not touched.
C8_CacheFailureInvisible ==
    [][\A s \in Slots :
          (/\ req'[s] # req[s]
           /\ req'[s].cmds > 0
           /\ req'[s].faults > (IF Accepted(s) THEN 0 ELSE req[s].faults))
          => /\ store' = store
             /\ CASE Accepted(s) ->
                       req'[s].pc = "query" /\ req'[s].res = NoRes
                  [] req[s].pc = "set" /\ req[s].op = "getOne" ->
                       /\ req'[s].pc = "done"
                       /\ req'[s].res = Res(200, JBook(JsonOfObject(req[s].rows[1])), FALSE, "", "")
                  [] req[s].pc = "set" /\ req[s].op = "getAll" ->
                       /\ req'[s].pc = "done"
                       /\ req'[s].res = Res(200, JList(JsonOfRows(req[s].rows)), FALSE, "", "")
                  [] OTHER ->
                       /\ req'[s].pc = "done"
                       /\ req'[s].res.status = (IF req[s].op = "post" THEN 201 ELSE 200)
                       /\ req'[s].res.error = ""]_vars
C8_Witness ==
    \E s \in Slots :
        /\ req[s].pc = "done" /\ req[s].faults > 0 /\ req[s].cmds > 0
        /\ req[s].res.status \in {200, 201}

\* C9: cache transparency, one request at a time with a connected, non-failing
\* cache: every read is answered as the store alone answers it (the documented
\* fromCache marker of a cache hit aside).
C9_CacheTransparent ==
    [][\A s \in Slots :
          (/\ DoneNow(s) /\ req'[s].op \in Reads
           /\ req'[s].outcome # "error"
           /\ isOpen /\ ~cacheFaults')
          => [req'[s].res EXCEPT !.fromCache = FALSE]
                 = UncachedRes(req'[s].op, req'[s].id)]_vars

\* C10: while the cache client is not open no command reaches the cache
\* service: getFromCache hands back absence (the read goes to the store),
\* setToCache and invalidateCache return at once, the cache is unchanged.
C10_ClosedClientSendsNothing ==
    [][~isOpen =>
          /\ cache' = cache
          /\ \A s \in Slots :
                /\ Accepted(s) =>
                      /\ req'[s].cmds = 0
                      /\ req'[s].op \in Reads =>
                            req'[s].pc = "query" /\ ~req'[s].hit
                /\ ~Accepted(s) => req'[s].cmds = req[s].cmds
                /\ (req[s].pc \in {"set", "keys", "del", "delAll"} /\ req'[s] # req[s])
                      => req'[s].pc = "done"]_vars
C10_Witness ==
    /\ ~isOpen /\ main # "initRedis"
    /\ \E s \in Slots :
          /\ req[s].pc = "done" /\ req[s].faults > 0 /\ req[s].cmds = 0
          /\ req[s].res.status \in {200, 201}
    /\ \E s \in Slots : req[s].pc = "query" /\ req[s].faults > 0

\* ------------------------------------------------------------------ startup
InLoop == main \in {"initDatabase", "sleep"}
AllAttemptsFailed == Len(attemptTimes) = StartRetries /\ ~connected

\* C11: when every startup attempt to connect to the store has failed, the
\* process is still in the last delay or has exited; it never goes on to
\* initRedis and to listening.
C11_AbortsWhenStoreUnreachable ==
    AllAttemptsFailed => main \in {"sleep", "aborted"}

\* C12: initDatabase() is called at most 5 times, two consecutive calls are
\* 5000 ms apart, no call follows a call that returned true, and the loop is
\* left.
C12_RetryLoopBounded ==
    /\ [](Len(attemptTimes) <= StartRetries)
    /\ [](\A i \in 2..Len(attemptTimes) :
             attemptTimes[i] - attemptTimes[i - 1] = RetryDelayMs)
    /\ [][connected => attemptTimes' = attemptTimes]_vars
    /\ <>(~InLoop)
C12_Witness ==
    /\ Len(attemptTimes) = StartRetries
    /\ attemptTimes[StartRetries] = (StartRetries - 1) * RetryDelayMs
    /\ connected
    /\ main = "listening"

\* ----------------------------------------------------------------- shutdown
\* the SIGTERM handler has started
SignalReceived == main \in {"quit", "end", "exited"}

\* C13: once the termination signal has been received no request is
\* accepted; the pool is closed only when the cache client is closed, and
\* the process has exited only with both closed.
C13_GracefulShutdown ==
    /\ [][SignalReceived => \A s \in Slots : ~Accepted(s)]_vars
    /\ [][(poolOpen /\ ~poolOpen') => ~isOpen]_vars
    /\ [](main = "exited" => (~poolOpen /\ ~isOpen))

C15_NoEntryServedPastTtl ==
    /\ [](\A k \in Keys : cache[k] # NoEntry => cache[k].ttl = CACHE_TTL)
    /\ [][\A s \in Slots :
            (Accepted(s) /\ req'[s].op \in Reads /\ req'[s].hit)
            => time - cache[KeyOf(req'[s])].at <= CACHE_TTL]_vars
\* a read answered from an entry half a TTL old, later than a full TTL after
\* the first entry was set
C15_Witness ==
    \E s \in Slots :
        /\ req[s].pc = "done" /\ req[s].op \in Reads /\ req[s].hit
        /\ cache[KeyOf(req[s])] # NoEntry
        /\ req[s].at - cache[KeyOf(req[s])].at = TickSecs
        /\ req[s].at >= CACHE_TTL

\* --------------------------------------------------------------- not found
\* the request accepted in slot s in this step has sent its store query and
\* the store has answered it
StoreAnswered(s) == req'[s].queries = 1 /\ req'[s].outcome \notin {"none", "error"}

\* C16: an update (with a body that passes validation) or a delete whose id
\* matches no row is answered 404 in the step of its query, with the store
\* and the cache unchanged; a delete that matches a row removes it and is
\* answered 200, and the id of a removed row never has a row again, so a
\* second delete of it is answered 404.
C16_NoRowIsNotFound ==
    /\ [][\A s \in Slots :
            (/\ Accepted(s) /\ req'[s].op \in {"put", "delete"}
             /\ StoreAnswered(s)
             /\ Matches(store, req'[s].id) = {})
            => /\ req'[s].pc = "done"
               /\ req'[s].res = ErrorRes(404, "Book not found")
               /\ store' = store
               /\ cache' = cache]_vars
    /\ [][\A s \in Slots :
            (/\ Accepted(s) /\ req'[s].op = "delete"
             /\ StoreAnswered(s)
             /\ Matches(store, req'[s].id) # {})
            => /\ req'[s].outcome = "ok"
               /\ Matches(store', req'[s].id) = {}]_vars
    /\ [][\A s \in Slots :
            (Answers(s) /\ req[s].op = "delete" /\ req[s].outcome = "ok")
            => req'[s].res.status = 200]_vars
    /\ [][\A i \in RowIds :
            (i < nextId /\ store[i] = NoRow) => store'[i] = NoRow]_vars
\* the same id deleted twice: one delete answered 200, the other 404
C16_Witness ==
    \E s, q \in Slots :
        /\ req[s].pc = "done" /\ req[q].pc = "done"
        /\ req[s].op = "delete" /\ req[q].op = "delete"
        /\ req[s].id = req[q].id
        /\ req[s].res.status = 200 /\ req[q].res.status = 404
        /\ req[s].stamp >= 0

\* ---------------------------------------------------------- isbn uniqueness
UniqueIsbn(st) ==
    \A i, j \in Present(st) : i # j => st[i].isbn # st[j].isbn

\* C17: a create (with a body that passes validation) whose isbn is the isbn
\* of a row in the store is answered 409 and leaves the store unchanged; no
\* two rows of the store ever share an isbn.
C17_DuplicateCreateIsConflict ==
    /\ [](UniqueIsbn(store))
    /\ [][\A s \in Slots :
            (/\ Accepted(s) /\ req'[s].op = "post"
             /\ StoreAnswered(s)
             /\ DupIsbn(store, req'[s].body.isbn, {}))
            => /\ req'[s].pc = "done"
               /\ req'[s].res = ErrorRes(409, "Book with this ISBN already exists")
               /\ store' = store]_vars
C17_Witness ==
    \E s \in Slots :
        /\ req[s].pc = "done" /\ req[s].op = "post"
        /\ req[s].res.status = 409
        /\ DupIsbn(store, req[s].body.isbn, {})

\* C18: every write the store refuses for a duplicate isbn, a create or an
\* update, is answered 409.
C18_DuplicateIsAlwaysConflict ==
    \A s \in Slots :
        (req[s].pc = "done" /\ req[s].outcome = "dup") => req[s].res.status = 409

\* ------------------------------------------------------------------- ranges
PriceInRange(x) == x.t = "decimal" /\ x.v >= 0 /\ x.v <= 10000 * 100
StockInRange(x) == IsNum(x) /\ x.v >= 0 /\ x.v <= 100000 * 100

\* C19: every row of the store has a price in [0, 10000] and a stock in
\* [0, 100000].
C19_StoredValuesInRange ==
    \A i \in Present(store) :
        PriceInRange(store[i].price) /\ StockInRange(store[i].stock)

\* --------------------------------------------------------------- validators
\* C20: a call of validateISBN, validatePrice or validateStock returns true
\* or false for every value; none throws.
C20_ValidatorsNeverThrow == verdict.out # "throws"

\* the validation results a handler answers 400 for
Rejected400 == {"required", "isbn", "price", "stock"}

\* C21: every body that the validation of POST rejects with 400 is rejected
\* with 400 by the validation of PUT.
C21_PutValidatesAsPost ==
    (verdict.fn = "PutValidation" /\ PostValidation(input) \in Rejected400)
        => verdict.out \in Rejected400

\* C22: a request is answered 5xx only when its store query failed.
C22_ServerErrorOnlyForStoreFailure ==
    \A s \in Slots :
        (req[s].pc = "done" /\ req[s].res.status >= 500)
            => req[s].outcome = "error"

\* ---------------------------------------------------------------- readiness
\* C23: the readiness check answers 200 'ready' exactly when the connection
\* was acquired and the ping answered, else 503 'not ready'; the state of the
\* cache client shows in the cache member of the body and nowhere else.
C23_ReadyIffStoreReachable ==
    [][\A s \in Slots :
          (DoneNow(s) /\ req'[s].op = "ready")
          => /\ req'[s].res.status = (IF req'[s].outcome = "ok" THEN 200 ELSE 503)
             /\ req'[s].res.doc.book.database =
                    (IF req'[s].outcome = "ok" THEN "connected" ELSE "disconnected")
             /\ req'[s].res.doc.book.cache = CacheField(isOpen)
             /\ req'[s].cmds = 0]_vars
\* ready with the cache client not open
C23_Witness ==
    \E s \in Slots :
        /\ req[s].pc = "done" /\ req[s].op = "ready"
        /\ req[s].res.status = 200
        /\ req[s].res.doc.book.cache = "disconnected"

\* ------------------------------------------------------------ cache timeout
\* C24: every request that was accepted is answered, also when the cache
\* service stops answering.
C24_AnsweredThoughCacheHangs ==
    \A s \in Slots : (req[s].pc \notin {"idle", "done"}) ~> (req[s].pc = "done")

\* ------------------------------------------------- startup without a cache
\* C25: the step that ends the cache connection attempt starts the listening,
\* whether connect() resolved or rejected; nothing else does, and no request
\* is accepted before; after a rejected connect() every read is answered from
\* the store and no command goes to the cache.
C25_StartsWithoutCache ==
    /\ [][main = "initRedis" /\ main' # main => main' = "listening"]_vars
    /\ [][main # "listening" /\ main' = "listening" => main = "initRedis"]_vars
    /\ [][\A s \in Slots :
            Accepted(s) => main \notin {"initDatabase", "sleep", "initRedis"}]_vars
    /\ [][\A s \in Slots :
            (DoneNow(s) /\ main = "listening" /\ ~isOpen)
            => /\ req'[s].cmds = 0
               /\ req'[s].queries = 1
               /\ req'[s].outcome = "rows" => req'[s].res.status = 200]_vars
\* the cache connection failed, the server listens and has answered a read
\* from the store
C25_Witness ==
    /\ main = "listening" /\ ~isOpen
    /\ \E s \in Slots :
          /\ req[s].pc = "done" /\ req[s].op = "getAll"
          /\ req[s].res.status = 200
          /\ req[s].cmds = 0 /\ req[s].queries = 1

\* ---------------------------------------------------------------- round trip
\* what GET /api/books/:id answers for path p when the cache has no entry:
\* the row the store returns, as res.json writes it
ReadOneDoc(st, p) == JsonOfObject(SelectById(st, p)[1])
\* the submitted value of price or stock, 0 when it was omitted
Submitted(x) == IF x = Undefined THEN Num(0) ELSE x
\* C26: when a create is answered with success, Read-one of the returned id
\* gives the submitted title, author, isbn, price and stock (price and stock
\* 0 when omitted).
C26_CreateReadRoundTrip ==
    [][\A s \in Slots :
         (Answers(s) /\ req'[s].op = "post" /\ req'[s].res.status = 201)
         => LET p == DigitStr[req'[s].res.doc.book.id.v \div 100]
                b == req'[s].body
            IN  /\ cache'[CacheKey(p)] = NoEntry
                /\ Len(SelectById(store', p)) = 1
                /\ ReadOneDoc(store', p).title = b.title
                /\ ReadOneDoc(store', p).author = b.author
                /\ ReadOneDoc(store', p).isbn = b.isbn
                /\ ReadOneDoc(store', p).stock = Submitted(b.stock)
                /\ ReadOneDoc(store', p).price = Submitted(b.price)]_vars

\* ------------------------------------------------------- validation results
\* the characters of s that are neither a hyphen nor white space
WithoutSeparators(s) ==
    SelectSeq(s, LAMBDA ch : ch \notin {"-", " ", "\t", "\n", "\r"})
IsbnShape(c) ==
    \/ Len(c) = 10 /\ \A i \in 1..10 : c[i] \in Digits
    \/ Len(c) = 10 /\ (\A i \in 1..9 : c[i] \in Digits) /\ c[10] = "X"
    \/ /\ Len(c) = 13 /\ \A i \in 1..13 : c[i] \in Digits
       /\ SubSeq(c, 1, 3) \in {<<"9", "7", "8">>, <<"9", "7", "9">>}
\* C27: validateISBN accepts a string exactly when, without its hyphens and
\* white space, it is 10 digits, 9 digits and X, or 13 digits beginning with
\* 978 or 979.
C27_IsbnAcceptedIffShape ==
    (verdict.fn = "validateISBN" /\ IsStr(input))
    => (verdict.out = "true" <=> IsbnShape(WithoutSeparators(input.chars)))
\* an ISBN-13 written with hyphens has been accepted
C27_Witness ==
    /\ verdict.fn = "validateISBN" /\ verdict.out = "true"
    /\ IsStr(input) /\ Len(input.chars) = 17

\* s is a numeral from its first to its last character: digits, and
\* optionally a point and more digits
Numeral(u) ==
    \E k \in 1..Len(u) :
        /\ \A i \in 1..k : u[i] \in Digits
        /\ \/ k = Len(u)
           \/ /\ k + 2 <= Len(u) /\ u[k + 1] = "."
              /\ \A i \in (k + 2)..Len(u) : u[i] \in Digits
Unsigned(s) == IF s # <<>> /\ Head(s) \in {"-", "+"} THEN Tail(s) ELSE s
WhollyNumber(x) ==
    IsNum(x) \/ (IsStr(x) /\ Numeral(Unsigned(TrimStart(x.chars))))
PriceOk(x) ==
    WhollyNumber(x) /\ parseFloat(x).v >= 0 /\ parseFloat(x).v <= 10000 * 100
StockOk(x) ==
    /\ WhollyNumber(x) /\ parseFloat(x).v % 100 = 0
    /\ parseFloat(x).v >= 0 /\ parseFloat(x).v <= 100000 * 100
\* C28: validatePrice accepts exactly the inputs that are wholly a number
\* from 0 to 10000, validateStock exactly the inputs that are wholly an
\* integer from 0 to 100000.
C28_NumbersAcceptedIffInRange ==
    /\ verdict.fn = "validatePrice" => (verdict.out = "true" <=> PriceOk(input))
    /\ verdict.fn = "validateStock" => (verdict.out = "true" <=> StockOk(input))

\* ------------------------------------------------------- cache entries
\* the handler in slot s receives the store's answer to its SELECT
ReadAnswered(s) ==
    /\ req[s].op \in {"getAll", "getOne"}
    /\ req[s].pc = "query" /\ req'[s].outcome = "rows"
\* the rows are what the store holds: all of them, or the one with that id
RowsOfStore(r, rows) ==
    IF r.op = "getAll"
    THEN /\ Len(rows) = Cardinality(Present(store))
         /\ {rows[i] : i \in 1..Len(rows)} = {store[i] : i \in Present(store)}
    ELSE \/ rows = <<>> /\ SqlIntOfString(r.id) \notin Present(store)
         \/ /\ SqlIntOfString(r.id) \in Present(store)
            /\ rows = <<store[SqlIntOfString(r.id)]>>
\* the JSON text of the rows a read handler holds
DocOfRows(r) ==
    IF r.op = "getAll" THEN JList(JsonOfRows(r.rows))
    ELSE JBook(JsonOfObject(r.rows[1]))
\* books:all holds a collection, books:{id} the row with that id
EntryShape(k) ==
    \/ cache[k] = NoEntry
    \/ k = AllKey /\ cache[k].text.j = "array"
    \/ /\ k # AllKey /\ cache[k].text.j = "object"
       /\ \E p \in NumericIds :
             k = CacheKey(p) /\ cache[k].text.book.id = Num(SqlIntOfString(p))
\* C29: the rows a read handler holds are the rows the store returned for
\* its query, an entry is written only by a read handler, under the key of
\* its request and with the text of the rows it holds, and so books:{id}
\* holds a row of that id and books:all a collection.
C29_EntriesAreStoreSnapshots ==
    /\ [][\A s \in Slots : ReadAnswered(s) => RowsOfStore(req[s], req'[s].rows)]_vars
    /\ [][\A k \in Keys :
            (cache'[k] # cache[k] /\ cache'[k] # NoEntry)
            => \E s \in Slots :
                 /\ req[s].op \in {"getAll", "getOne"} /\ req[s].pc = "set"
                 /\ k = KeyOf(req[s])
                 /\ cache'[k].text = DocOfRows(req[s])]_vars
    /\ [](\A k \in Keys : EntryShape(k))
\* the cache holds the collection and a single book
C29_Witness ==
    /\ cache[AllKey] # NoEntry
    /\ \E p \in NumericIds : cache[CacheKey(p)] # NoEntry

\* ----------------------------------------------------------------- book ids
IdsOf(st) == {st[i].id : i \in Present(st)}
\* the store has just carried out the INSERT of the create in slot s
Created(s) ==
    /\ Accepted(s) /\ req'[s].op = "post" /\ req'[s].outcome = "ok"
    /\ \E i \in RowIds \ Present(store) :
          /\ Present(store') = Present(store) \cup {i}
          /\ store'[i].id \notin IdsOf(store)
          /\ \A k \in Present(store) : store[k].id.v < store'[i].id.v
          /\ req'[s].insertId * 100 = store'[i].id.v
\* the store has just carried out the DELETE of the request in slot s
Deleted(s) ==
    /\ Accepted(s) /\ req'[s].op = "delete" /\ req'[s].outcome = "ok"
    /\ \E i \in Present(store) :
          /\ Present(store') = Present(store) \ {i}
          /\ store[i].id = Num(SqlIntOfString(req'[s].id))
\* C30: the ids of the books are distinct, a book keeps its id, and the set
\* of ids changes only by a create the store carried out (one fresh id) or a
\* delete it carried out (one id less).
C30_IdsAssignedOnceAndDistinct ==
    /\ [](Cardinality(IdsOf(store)) = Cardinality(Present(store)))
    /\ [][\A i \in Present(store) \cap Present(store') :
            store'[i].id = store[i].id]_vars
    /\ [][IdsOf(store') # IdsOf(store) \/ Present(store') # Present(store)
            => \E s \in Slots : Created(s) \/ Deleted(s)]_vars
\* a book was created and a book was updated
C30_Witness ==
    /\ Cardinality(Present(store)) = 2
    /\ \E i \in Present(store) : store[i].updated_at.v > store[i].created_at.v

\* ------------------------------------------- mutation, invalidation, answer
WriteOps == {"post", "put", "delete"}
Invalidating(r) == r.pc \in {"keys", "del", "delAll"}
\* C31: a write handler is in its invalidation only after its mutation was
\* carried out and before it has answered; the step of the mutation sends no
\* cache command, the steps of the invalidation leave the store alone, and a
\* successful write is answered only by the step that ends the invalidation:
\* its last command returned, or one of its commands failed or was skipped.
C31_MutateInvalidateAnswer ==
    /\ [](\A s \in Slots :
            Invalidating(req[s])
            => /\ req[s].op \in WriteOps /\ req[s].outcome = "ok"
               /\ req[s].queries = 1 /\ req[s].stamp \in 1..now
               /\ req[s].res = NoRes)
    /\ [][\A s \in Slots :
            (Accepted(s) /\ Invalidating(req'[s]))
            => req'[s].cmds = 0 /\ cache' = cache /\ store' # store]_vars
    /\ [][\A s \in Slots :
            (Invalidating(req[s]) /\ req'[s] # req[s]) => store' = store]_vars
    /\ [][\A s \in Slots :
            (DoneNow(s) /\ req'[s].op \in WriteOps /\ req'[s].res.status \in {200, 201})
            => /\ Invalidating(req[s])
               /\ \/ req[s].pc = "delAll" /\ req'[s].cmds = req[s].cmds + 1
                  \/ req'[s].faults = req[s].faults + 1]_vars
\* a write has been answered after the KEYS, DEL and DEL books:all of its
\* invalidation all returned
C31_Witness ==
    \E s \in Slots :
        /\ req[s].pc = "done" /\ req[s].op \in WriteOps
        /\ req[s].res.status \in {200, 201}
        /\ req[s].cmds = 3 /\ req[s].faults = 0

\* ------------------------------------------------------- read after delete
\* slot q holds a DELETE of the id of path p that was answered with success
DeleteReturned(q, p) ==
    /\ req[q].pc = "done" /\ req[q].op = "delete" /\ req[q].res.status = 200
    /\ SqlIntOfString(req[q].id) = SqlIntOfString(p)
\* C32: a Read-one that starts after a DELETE of its id was answered with
\* success is not answered with the book: it goes to the store, which has no
\* such row (here with a cache that is connected and has answered every
\* command).
C32_ReadAfterDeleteIsNotFound ==
    [][\A s \in Slots, q \in Slots :
         (/\ q # s /\ Accepted(s) /\ req'[s].op = "getOne"
          /\ DeleteReturned(q, req'[s].id)
          /\ Healthy /\ req'[s].faults = 0)
         => /\ req'[s].pc = "query"
            /\ SelectById(store, req'[s].id) = <<>>]_vars

\* ------------------------------------------- a write whose invalidation failed
\* C33: with one request at a time, every entry in the cache when a write
\* is answered with success existed when the write succeeded, so the read
\* that follows the write is not answered from the cache.
C33_NoHitAfterWrite ==
    [][\A s \in Slots :
         (/\ Accepted(s) /\ req'[s].op \in Reads
          /\ req[s].pc = "done" /\ req[s].op \in Writes
          /\ req[s].res.status \in {200, 201})
         => ~req'[s].hit]_vars

\* ------------------------------------------------------------ cache keys
\* C34: a Read-one answered from the cache answers one book, whatever id
\* is in its path, never the entry of the collection.
C34_RecordKeysApartFromCollection ==
    \A s \in Slots :
        (req[s].op = "getOne" /\ req[s].pc = "done" /\ req[s].hit)
        => /\ req[s].res.doc.list = <<>>
           /\ req[s].res.doc.book # NoBook

\* ------------------------------------------------------------ store frame
\* the body of a create, or of an update, is one the endpoint's rules allow
WellFormed(b) ==
    /\ IsStr(b.isbn) /\ validateISBN(b.isbn)
    /\ b.price = Undefined \/ validatePrice(b.price)
    /\ b.stock = Undefined \/ validateStock(b.stock)
ValidWrite(r) ==
    CASE r.op = "post"   -> Truthy(r.body.title) /\ Truthy(r.body.author)
                              /\ WellFormed(r.body)
      [] r.op = "put"    -> WellFormed(r.body)
      [] r.op = "delete" -> TRUE
      [] OTHER           -> FALSE
\* C35: the store changes only in the step where a create, update or delete
\* that passed validation has its statement carried out; a request of any
\* other kind, and a write answered 400, never sent a mutating statement.
C35_StoreChangesOnlyByValidWrites ==
    /\ [][(store' # store \/ nextId' # nextId \/ now' # now)
            => \E s \in Slots :
                 /\ Accepted(s) /\ ValidWrite(req'[s])
                 /\ req'[s].outcome = "ok" /\ req'[s].stamp = now']_vars
    /\ [](\A s \in Slots :
            (req[s].op \in {"getAll", "getOne", "ready", "health"}
                \/ req[s].res.status = 400)
            => req[s].stamp = -1)
    /\ [](\A s \in Slots : req[s].res.status = 400 => req[s].queries = 0)
\* three requests were answered, the last a write rejected with 400, and the
\* store is as it was at the start
C35_Witness ==
    /\ started = MaxReqs /\ now = 0
    /\ req[1].pc = "done" /\ req[1].op \in Writes /\ req[1].res.status = 400

\* ------------------------------------------------------- one response each
\* C36: a request that was accepted is answered; a handler that has not
\* finished has sent nothing, one that has finished has sent one status and
\* body; what was sent is not changed afterwards.
C36_ExactlyOneResponse ==
    /\ [](\A s \in Slots :
            /\ req[s].sent = (IF req[s].pc = "done" THEN 1 ELSE 0)
            /\ req[s].sent = 0 <=> req[s].res = NoRes
            /\ req[s].sent = 1 => req[s].res.status \in {200, 201, 400, 404, 409, 500})
    /\ [][\A s \in Slots :
            (req[s].pc = "done" /\ ~Accepted(s)) => req'[s] = req[s]]_vars
    /\ \A s \in Slots : (req[s].pc \notin {"idle", "done"}) ~> (req[s].sent = 1)
\* the last request was answered after its handler had waited for the store
\* and for the cache
C36_Witness ==
    /\ started = MaxReqs
    /\ req[1].pc = "done" /\ req[1].sent = 1
    /\ req[1].queries = 1 /\ req[1].cmds >= 2

\* ------------------------------------------------ the body of the 201 answer
BookFields == {"title", "author", "isbn", "price", "stock"}
\* C37: when a create is answered 201, each of title, author, isbn, price
\* and stock in the answer equals what Read-one of the new id gives.
C37_CreatedBodyAgreesWithStore ==
    [][\A s \in Slots :
         (Answers(s) /\ req'[s].op = "post" /\ req'[s].res.status = 201)
         => LET d == req'[s].res.doc.book
                p == DigitStr[d.id.v \div 100]
            IN  /\ Len(SelectById(store', p)) = 1
                /\ \A f \in BookFields :
                      /\ f \in DOMAIN d
                      /\ d[f] = ReadOneDoc(store', p)[f]]_vars

\* ------------------------------------------------------- connection pools
\* every call of initDatabase() runs mysql.createPool(dbConfig) and assigns
\* the new pool to the variable pool; the pool it replaces is not ended
PoolsCreated == Len(attemptTimes)
\* pool.end() is called in the SIGTERM handler only, on the pool the
\* variable names then
PoolsEnded == IF poolOpen THEN 0 ELSE 1
PoolsOpen == PoolsCreated - PoolsEnded
\* C38: at most one connection pool exists at any time.
C38_AtMostOnePool == PoolsOpen <= 1

====
